---- MODULE Spec2Model ----
(* A model of src/data_preparation.py: the clean -> merge -> segment       *)
(* pipeline over pandas DataFrames.  A DataFrame is a record               *)
(* [cols |-> set of column names, rows |-> sequence of rows], a row being  *)
(* a function from the column names to cell values.  String cells use None *)
(* for a missing value, numeric cells use NaN.                             *)
EXTENDS Integers, Sequences, FiniteSets, TLC

VARIABLES portfolio, profile, transcript,
          profile_cleaned, transcript_cleaned,
          step1, merged_data,
          profile_before, transcript_before, first,
          run, pc

vars == <<portfolio, profile, transcript, profile_cleaned, transcript_cleaned,
          step1, merged_data, profile_before, transcript_before, first, run, pc>>

\* ---------------------------------------------------------------- bounds
MaxProfile == 2
MaxPortfolio == 2
MaxTranscript == 2
MaxCleanRows == 2
MaxSegRows == 2

\* ---------------------------------------------------------- cell values
None == "None"
NaN == -1
Sentinel == 118

bins == <<18, 35, 60, 100>>
labels == <<"Young", "Middle-aged", "Senior">>

\* ------------------------------------------------------ DataFrame algebra
Frame(cols, rows) == [cols |-> cols, rows |-> rows]

NoFrame == Frame({}, <<>>)

\* df[c] = series: adds column c, or overwrites it when it exists
Assign(df, c, series) ==
    Frame(df.cols \cup {c},
          [i \in 1..Len(df.rows) |->
              [k \in df.cols \cup {c} |->
                  IF k = c THEN series[i] ELSE df.rows[i][k]]])

\* df.drop(columns=c): a new frame without column c
Drop(df, c) ==
    Frame(df.cols \ {c},
          [i \in 1..Len(df.rows) |-> [k \in df.cols \ {c} |-> df.rows[i][k]]])

NumericCols == {"age", "transaction_amount"}

NullOf(c) == IF c \in NumericCols THEN NaN ELSE None

\* pandas' default suffixes: a column name found on both sides becomes
\* name_x for the left frame's column and name_y for the right frame's.
LeftName(left, right, c) == IF c \in right.cols THEN c \o "_x" ELSE c

\* mutant: the right frame's colliding column keeps its bare name
RightNameNoSuffix(left, right, c) == c

RightName(left, right, c) == IF c \in left.cols THEN c \o "_y" ELSE c

MergedCols(left, right) ==
    {LeftName(left, right, c) : c \in left.cols} \cup
    {RightName(left, right, c) : c \in right.cols}

\* one output row: the left row's cells followed by the right row's cells
JoinRow(left, right, l, r) ==
    [n \in MergedCols(left, right) |->
        IF \E c \in left.cols : LeftName(left, right, c) = n
        THEN l[CHOOSE c \in left.cols : LeftName(left, right, c) = n]
        ELSE r[CHOOSE c \in right.cols : RightName(left, right, c) = n]]

\* a left row without a match in a left join: the right cells are missing
PadRow(left, right, l) ==
    [n \in MergedCols(left, right) |->
        IF \E c \in left.cols : LeftName(left, right, c) = n
        THEN l[CHOOSE c \in left.cols : LeftName(left, right, c) = n]
        ELSE NullOf(CHOOSE c \in right.cols : RightName(left, right, c) = n)]

RECURSIVE Concat(_)
Concat(ss) == IF ss = <<>> THEN <<>> ELSE Head(ss) \o Concat(Tail(ss))

\* the output rows of one left row: one per right row with an equal key (in
\* the right frame's order); none (inner) or one padded row (left) otherwise
RowMatches(left, right, left_on, right_on, how, l) ==
    LET hit(r) == r[right_on] = l[left_on]
        rs == SelectSeq(right.rows, hit)
    IN IF rs = <<>>
       THEN IF how = "left" THEN <<PadRow(left, right, l)>> ELSE <<>>
       ELSE [j \in 1..Len(rs) |-> JoinRow(left, right, l, rs[j])]

\* pd.merge(left, right, left_on=, right_on=, how=), how in {inner, left}
Merge(left, right, left_on, right_on, how) ==
    Frame(MergedCols(left, right),
          Concat([i \in 1..Len(left.rows) |->
                     RowMatches(left, right, left_on, right_on, how, left.rows[i])]))

\* ------------------------------------------------------------ clean_data
Truthy(v) == v \notin {None, ""}

\* dict.get(k): the entry, or None when the key is absent
Get(x, k) == IF k \in DOMAIN x THEN x[k] ELSE None

\* x.get('offer id') or x.get('offer_id')
OfferId(x) == IF Truthy(Get(x, "offer id")) THEN Get(x, "offer id") ELSE Get(x, "offer_id")

\* mutant: x.get('amount'), the default forgotten
TransactionAmountNoDefault(x) == IF "amount" \in DOMAIN x THEN x["amount"] ELSE NaN

\* x.get('amount', 0)
TransactionAmount(x) == IF "amount" \in DOMAIN x THEN x["amount"] ELSE 0

\* mutant: age < 118, which is false of a missing age
KeepProfileRowNotNull(r) == r["age"] # Sentinel /\ r["age"] # NaN

KeepProfileRow(r) == r["age"] # Sentinel

\* profile[mask]: the rows the mask keeps, in their order, columns unchanged
CleanProfile(p) == Frame(p.cols, SelectSeq(p.rows, KeepProfileRow))

\* transcript['value'].apply(...): one derived cell per row
OfferIds(t) == [i \in 1..Len(t.rows) |-> OfferId(t.rows[i]["value"])]

TransactionAmounts(t) == [i \in 1..Len(t.rows) |-> TransactionAmount(t.rows[i]["value"])]

\* mutant: the value column dropped in place as well
DeriveColumnsDropValue(t) ==
    Drop(Assign(Assign(t, "offer_id", OfferIds(t)), "transaction_amount", TransactionAmounts(t)),
         "value")

\* the caller's transcript after lines 51-52: two columns written in place
DeriveColumns(t) ==
    Assign(Assign(t, "offer_id", OfferIds(t)), "transaction_amount", TransactionAmounts(t))

\* ------------------------------------------------------------ merge_data
\* mutant: how='left' in step 1
MergeStep1Left(t, p) == Merge(t, p, "person", "id", "left")

\* line 67: transcript_cleaned joined to profile_cleaned on person == id
MergeStep1(t, p) == Merge(t, p, "person", "id", "inner")

\* mutant: how='inner' in step 2
MergeStep2Inner(m, pf) == Merge(m, pf, "offer_id", "id", "inner")

\* line 68: the step-1 result joined to portfolio on offer_id == id
MergeStep2(m, pf) == Merge(m, pf, "offer_id", "id", "left")

\* ---------------------------------------------------------- segment_data
\* mutant: right=True, the bins closed on the right
CutRightClosed(age) ==
    IF age = NaN THEN None
    ELSE IF \E i \in 1..Len(labels) : bins[i] < age /\ age <= bins[i + 1]
         THEN labels[CHOOSE i \in 1..Len(labels) : bins[i] < age /\ age <= bins[i + 1]]
         ELSE None

\* pd.cut(age, bins, labels, right=False): label i for bins[i] <= age <
\* bins[i+1]; a missing age or an age in no bin gives a missing category
Cut(age) ==
    IF age = NaN THEN None
    ELSE IF \E i \in 1..Len(labels) : bins[i] <= age /\ age < bins[i + 1]
         THEN labels[CHOOSE i \in 1..Len(labels) : bins[i] <= age /\ age < bins[i + 1]]
         ELSE None

\* pd.cut over the age column: one category per row
AgeGroups(m) == [i \in 1..Len(m.rows) |-> Cut(m.rows[i]["age"])]

\* mutant: the categories joined on as a new column, suffixed when one exists
SegmentFrameJoin(m) ==
    IF "age_group" \in m.cols
    THEN Assign(m, "age_group_y", AgeGroups(m))
    ELSE Assign(m, "age_group", AgeGroups(m))

\* line 82: age_group written in place into merged_data
SegmentFrame(m) == Assign(m, "age_group", AgeGroups(m))

\* ---------------------------------------------------------------- inputs
Tables(cols, rows, max) == {Frame(cols, rs) : rs \in UNION {[1..n -> rows] : n \in 0..max}}

PersonIds == {"U1", "U2"}

OfferValues == {"O1", "O2", ""}

Amounts == {5, -5}

ProfileRows(ages) == [id : PersonIds, age : ages]

PortfolioRows == {[id |-> "O1", offer_type |-> "bogo"], [id |-> "O2", offer_type |-> "discount"]}

\* every value mapping over a subset of the keys "offer id", "offer_id", "amount"
ValueMaps ==
    {o @@ a : o \in UNION {[K -> OfferValues] : K \in SUBSET {"offer id", "offer_id"}},
              a \in UNION {[K -> Amounts] : K \in SUBSET {"amount"}}}

PipelineValues == {[amount |-> 5], [k \in {"offer id"} |-> "O1"]}

TranscriptRows(persons, values) == [person : persons, value : values]

\* the end-to-end scenario's tables
ExamplePortfolio == Frame({"id", "offer_type"}, <<[id |-> "O1", offer_type |-> "bogo"]>>)

ExampleProfile == Frame({"id", "age"}, <<[id |-> "U1", age |-> 118], [id |-> "U2", age |-> 40]>>)

ExampleTranscript ==
    Frame({"person", "value"},
          <<[person |-> "U1", value |-> [amount |-> 5]],
            [person |-> "U2", value |-> [k \in {"offer id"} |-> "O1"]]>>)

SegmentAges == {17, 18, 34, 35, 59, 60, 99, 100, NaN}

PriorGroups == {"Young", "Senior", None}

InitLocals(entry) ==
    /\ profile_cleaned = NoFrame
    /\ transcript_cleaned = NoFrame
    /\ step1 = NoFrame
    /\ profile_before = NoFrame
    /\ transcript_before = NoFrame
    /\ first = NoFrame
    /\ run = 1
    /\ pc = entry

\* the caller holds the three loaded tables and calls preprocess_data
Init ==
    /\ portfolio \in Tables({"id", "offer_type"}, PortfolioRows, MaxPortfolio)
    /\ profile \in Tables({"id", "age"}, ProfileRows({40, Sentinel}), MaxProfile)
    /\ transcript \in Tables({"person", "value"}, TranscriptRows(PersonIds, PipelineValues), MaxTranscript)
    /\ merged_data = NoFrame
    /\ InitLocals("clean")

\* the caller calls clean_data: either table varies over its whole domain
InitClean ==
    /\ portfolio = ExamplePortfolio
    /\ \/ /\ profile \in Tables({"id", "age"}, ProfileRows({40, Sentinel, NaN}), MaxProfile)
          /\ transcript = ExampleTranscript
       \/ /\ profile = ExampleProfile
          /\ transcript \in Tables({"person", "value"}, TranscriptRows({"U2"}, ValueMaps), MaxCleanRows)
    /\ merged_data = NoFrame
    /\ InitLocals("clean")

\* the caller calls segment_data on a table with or without an age_group column
InitSegment ==
    /\ portfolio = ExamplePortfolio
    /\ profile = ExampleProfile
    /\ transcript = ExampleTranscript
    /\ merged_data \in Tables({"age"}, [age : SegmentAges], MaxSegRows) \cup
                       Tables({"age", "age_group"}, [age : SegmentAges, age_group : PriorGroups], MaxSegRows)
    /\ InitLocals("segment")

\* --------------------------------------------------------------- actions
\* clean_data(profile, transcript), lines 50-54
CleanData ==
    /\ pc = "clean"
    /\ profile_before' = profile
    /\ transcript_before' = transcript
    /\ IF "age" \in profile.cols /\ "value" \in transcript.cols
       THEN /\ profile_cleaned' = CleanProfile(profile)
            /\ transcript' = DeriveColumns(transcript)
            /\ transcript_cleaned' = Drop(transcript', "value")
            /\ pc' = "merge"
       ELSE /\ pc' = "raised"
            /\ UNCHANGED <<profile_cleaned, transcript, transcript_cleaned>>
    /\ UNCHANGED <<portfolio, profile, step1, merged_data, first, run>>

\* merge_data(transcript_cleaned, profile_cleaned, portfolio), lines 67-69
MergeData ==
    /\ pc = "merge"
    /\ step1' = MergeStep1(transcript_cleaned, profile_cleaned)
    /\ merged_data' = MergeStep2(step1', portfolio)
    /\ pc' = "segment"
    /\ UNCHANGED <<portfolio, profile, transcript, profile_cleaned, transcript_cleaned,
                   profile_before, transcript_before, first, run>>

\* segment_data(merged_data), lines 80-83
SegmentData ==
    /\ pc = "segment"
    /\ IF "age" \in merged_data.cols
       THEN merged_data' = SegmentFrame(merged_data) /\ pc' = "done"
       ELSE merged_data' = merged_data /\ pc' = "raised"
    /\ UNCHANGED <<portfolio, profile, transcript, profile_cleaned, transcript_cleaned,
                   step1, profile_before, transcript_before, first, run>>

CallAgain(entry) ==
    /\ pc = "done"
    /\ run = 1
    /\ first' = merged_data
    /\ run' = 2
    /\ pc' = entry
    /\ UNCHANGED <<portfolio, profile, transcript, profile_cleaned, transcript_cleaned,
                   step1, merged_data, profile_before, transcript_before>>

\* preprocess_data returned; the caller calls it again on the same three tables
PreprocessAgain == CallAgain("clean")

\* segment_data returned merged_data; the caller passes it to segment_data again
SegmentAgain == CallAgain("segment")

Next == CleanData \/ MergeData \/ SegmentData \/ PreprocessAgain

Spec == Init /\ [][Next]_vars

NextClean == CleanData

SpecClean == InitClean /\ [][NextClean]_vars

NextSegment == SegmentData \/ SegmentAgain

SpecSegment == InitSegment /\ [][NextSegment]_vars

\* ================================================================ claims
Returned == pc \in {"merge", "segment", "done"}

Merged == pc \in {"segment", "done"}

Rows(df) == 1..Len(df.rows)

\* the value mapping the i-th cleaned transcript row was derived from
ValueOf(i) == transcript_before.rows[i]["value"]

\* C1: after clean_data returns, the caller's profile and transcript tables have
\* the same columns and rows as before the call.
C1_NoSideEffect ==
    Returned => profile = profile_before /\ transcript = transcript_before

\* C2: offer_id is value["offer id"] when that key is present, else
\* value["offer_id"] when that key is present, else null; no error is raised.
C2_OfferIdByPresence ==
    /\ pc # "raised"
    /\ Returned =>
         /\ Len(transcript_cleaned.rows) = Len(transcript_before.rows)
         /\ \A i \in Rows(transcript_cleaned) :
              transcript_cleaned.rows[i]["offer_id"] =
                 IF "offer id" \in DOMAIN ValueOf(i) THEN ValueOf(i)["offer id"]
                 ELSE IF "offer_id" \in DOMAIN ValueOf(i) THEN ValueOf(i)["offer_id"]
                 ELSE None

\* C3 as stated: the cleaned transcript has no value column; transaction_amount
\* is >= 0 and equal to value["amount"] when the key is present, else exactly 0.
C3_AmountNonNegative ==
    Returned =>
      /\ "value" \notin transcript_cleaned.cols
      /\ \A i \in Rows(transcript_cleaned) :
           IF "amount" \in DOMAIN ValueOf(i)
           THEN /\ transcript_cleaned.rows[i]["transaction_amount"] >= 0
                /\ transcript_cleaned.rows[i]["transaction_amount"] = ValueOf(i)["amount"]
           ELSE transcript_cleaned.rows[i]["transaction_amount"] = 0

\* C3 amended: the cleaned transcript has no value column; transaction_amount
\* equals value["amount"] when the key is present (whatever its sign), else 0.
C3_AmountCopied ==
    Returned =>
      /\ "value" \notin transcript_cleaned.cols
      /\ "transaction_amount" \in transcript_cleaned.cols
      /\ Len(transcript_cleaned.rows) = Len(transcript_before.rows)
      /\ \A i \in Rows(transcript_cleaned) :
           transcript_cleaned.rows[i]["transaction_amount"] =
              IF "amount" \in DOMAIN ValueOf(i) THEN ValueOf(i)["amount"] ELSE 0

C3_Witness ==
    /\ Returned
    /\ \E i, j \in Rows(transcript_cleaned) :
         /\ "amount" \in DOMAIN ValueOf(i)
         /\ transcript_cleaned.rows[i]["transaction_amount"] < 0
         /\ "amount" \notin DOMAIN ValueOf(j)

\* the input rows clean_data is to keep, and the k-th of them
KeptIndices == {i \in Rows(profile_before) : profile_before.rows[i]["age"] # 118}

KthKept(k) == CHOOSE i \in KeptIndices : Cardinality({j \in KeptIndices : j < i}) = k - 1

\* C4: the cleaned profile holds exactly the input rows whose age is not 118
\* (a null age included), in their original order, every column unchanged.
C4_ProfileFilter ==
    Returned =>
      /\ profile_cleaned.cols = profile_before.cols
      /\ Len(profile_cleaned.rows) = Cardinality(KeptIndices)
      /\ \A k \in Rows(profile_cleaned) : profile_cleaned.rows[k] = profile_before.rows[KthKept(k)]

C4_Witness ==
    /\ Returned
    /\ Len(profile_cleaned.rows) < Len(profile_before.rows)
    /\ \E k \in Rows(profile_cleaned) : profile_cleaned.rows[k]["age"] = NaN

UniqueIds(df) == \A i, j \in Rows(df) : df.rows[i]["id"] = df.rows[j]["id"] => i = j

\* C5 as stated: step 1 never has more rows than the cleaned transcript, and
\* step 2 has exactly as many rows as step 1.
C5_JoinCounts ==
    Merged =>
      /\ Len(step1.rows) <= Len(transcript_cleaned.rows)
      /\ Len(merged_data.rows) = Len(step1.rows)

\* C5 amended: step 1 has at most as many rows as the cleaned transcript when
\* no two cleaned profile rows share an id, and step 2 has as many rows as
\* step 1 when no two portfolio rows share an id.
C5_JoinCountsUniqueKeys ==
    Merged =>
      /\ UniqueIds(profile_cleaned) => Len(step1.rows) <= Len(transcript_cleaned.rows)
      /\ UniqueIds(portfolio) => Len(merged_data.rows) = Len(step1.rows)

C5_Witness ==
    /\ pc = "segment"
    /\ UniqueIds(profile_cleaned)
    /\ UniqueIds(portfolio)
    /\ Len(portfolio.rows) = 2
    /\ Len(step1.rows) = 1
    /\ Len(transcript_cleaned.rows) = 2
    /\ Len(merged_data.rows) = 1

\* the original transcript events of a person with a profile row of age # 118
EventIndices ==
    {i \in Rows(transcript_before) :
        \E p \in Rows(profile) : /\ profile.rows[p]["id"] = transcript_before.rows[i]["person"]
                                 /\ profile.rows[p]["age"] # 118}

KthEvent(k) == CHOOSE i \in EventIndices : Cardinality({j \in EventIndices : j < i}) = k - 1

\* the k-th result row is the k-th such event, carrying the attributes of the
\* portfolio entry with its offer_id, or null ones when there is no such entry
EventRow(k) ==
    LET row == merged_data.rows[k]
        ev == transcript_before.rows[KthEvent(k)]
    IN /\ row["person"] = ev["person"]
       /\ \E p \in Rows(profile) : /\ profile.rows[p]["id"] = row["person"]
                                   /\ profile.rows[p]["age"] # 118
                                   /\ profile.rows[p]["age"] = row["age"]
       /\ IF \E o \in Rows(portfolio) : portfolio.rows[o]["id"] = row["offer_id"]
          THEN \E o \in Rows(portfolio) : /\ portfolio.rows[o]["id"] = row["offer_id"]
                                          /\ portfolio.rows[o]["offer_type"] = row["offer_type"]
          ELSE row["offer_type"] = None

ExampleInputs ==
    /\ portfolio = ExamplePortfolio
    /\ profile = ExampleProfile
    /\ transcript_before = ExampleTranscript

ExampleResult ==
    <<[person |-> "U2", offer_id |-> "O1", transaction_amount |-> 0, id_x |-> "U2",
       age |-> 40, id_y |-> "O1", offer_type |-> "bogo", age_group |-> "Middle-aged"]>>

\* C6 as stated: the result of preprocess_data has one row per original event of
\* a person with a profile row of age # 118 and none for other events, each with
\* the attributes of the portfolio entry matching its offer_id or null ones; the
\* example inputs give exactly the one row of U2's event.
C6_OneRowPerEvent ==
    pc = "done" =>
      /\ Len(merged_data.rows) = Cardinality(EventIndices)
      /\ \A k \in Rows(merged_data) : EventRow(k)
      /\ ExampleInputs => merged_data.rows = ExampleResult

\* C6 amended: the same, provided no two profile rows of age # 118 share an id
\* and no two portfolio rows share an id.
C6_OneRowPerEventUniqueKeys ==
    (pc = "done" /\ UniqueIds(profile_cleaned) /\ UniqueIds(portfolio)) =>
      /\ Len(merged_data.rows) = Cardinality(EventIndices)
      /\ \A k \in Rows(merged_data) : EventRow(k)
      /\ ExampleInputs => merged_data.rows = ExampleResult

C6_Witness == pc = "done" /\ ExampleInputs /\ Len(merged_data.rows) = 1

\* C9: the merged table has the profile's id and the portfolio's id as two
\* distinct columns, the first holding the matched profile id, the second the
\* matched portfolio id or null, beside the transcript's own person and
\* offer_id columns with the transcript's values.
C9_IdColumnsKept ==
    Merged =>
      /\ {"person", "offer_id", "id_x", "id_y"} \subseteq merged_data.cols
      /\ "id" \notin merged_data.cols
      /\ \A k \in Rows(merged_data) :
           LET row == merged_data.rows[k]
           IN /\ row["id_x"] = row["person"]
              /\ \E p \in Rows(profile_cleaned) : profile_cleaned.rows[p]["id"] = row["id_x"]
              /\ IF \E o \in Rows(portfolio) : portfolio.rows[o]["id"] = row["offer_id"]
                 THEN row["id_y"] = row["offer_id"]
                 ELSE row["id_y"] = None
              /\ \E i \in Rows(transcript_cleaned) :
                   \A c \in transcript_cleaned.cols : transcript_cleaned.rows[i][c] = row[c]

C9_Witness ==
    /\ pc = "segment"
    /\ \E k, m \in Rows(merged_data) :
         /\ merged_data.rows[k]["id_y"] = None
         /\ merged_data.rows[m]["id_y"] = "O1"
         /\ merged_data.rows[k]["id_x"] # merged_data.rows[m]["id_x"]

\* C10: a second call of preprocess_data on the same three tables raises no
\* error and returns a table equal to the one the first call returned.
C10_RerunSameResult ==
    /\ pc # "raised"
    /\ (run = 2 /\ pc = "done") => merged_data = first

C10_Witness ==
    /\ run = 2
    /\ pc = "done"
    /\ Len(merged_data.rows) = 2
    /\ {"value", "offer_id", "transaction_amount"} \subseteq transcript.cols

\* the category the claim gives an age
ClaimedGroup(age) ==
    IF age = NaN THEN None
    ELSE IF 18 <= age /\ age < 35 THEN "Young"
    ELSE IF 35 <= age /\ age < 60 THEN "Middle-aged"
    ELSE IF 60 <= age /\ age < 100 THEN "Senior"
    ELSE None

\* C7: age_group is Young for 18 <= age < 35, Middle-aged for 35 <= age < 60,
\* Senior for 60 <= age < 100 and null for any other or a null age; no error.
C7_HalfOpenBins ==
    /\ pc # "raised"
    /\ pc = "done" =>
         /\ "age_group" \in merged_data.cols
         /\ \A k \in Rows(merged_data) :
              LET row == merged_data.rows[k]
              IN /\ row["age_group"] = ClaimedGroup(row["age"])
                 /\ row["age"] \in {18, 34} => row["age_group"] = "Young"
                 /\ row["age"] \in {35, 59} => row["age_group"] = "Middle-aged"
                 /\ row["age"] \in {60, 99} => row["age_group"] = "Senior"
                 /\ row["age"] \in {17, 100, NaN} => row["age_group"] = None

C7_Witness ==
    /\ pc = "done"
    /\ run = 1
    /\ \E k, m \in Rows(merged_data) :
         /\ merged_data.rows[k]["age"] = 35 /\ merged_data.rows[k]["age_group"] = "Middle-aged"
         /\ merged_data.rows[m]["age"] = 100 /\ merged_data.rows[m]["age_group"] = None

\* C8: segment_data applied to its own result leaves every column and row as
\* the first application left them.
C8_SegmentIdempotent ==
    (run = 2 /\ pc = "done") => merged_data = first

C8_Witness ==
    /\ run = 2
    /\ pc = "done"
    /\ Len(merged_data.rows) = 2
    /\ merged_data.rows[1]["age_group"] # merged_data.rows[2]["age_group"]

====
